---------------------------- MODULE Spec2Model ----------------------------
(***************************************************************************)
(* The UCI driver of src/src/main.rs: the Game adapter `Chess` (actions,   *)
(* execute) and the dispatcher loop of `main`.                             *)
(*                                                                         *)
(* The rules engine (shakmaty), the search engine (rubot) and the parser   *)
(* (vampirc_uci) are external crates.  They are modelled here by what the  *)
(* driver relies on:                                                       *)
(*   - shakmaty by a chess played on a reduced board (Files x Ranks, no    *)
(*     castling, no en passant, no double pawn step), with its own move    *)
(*     generation, legality, outcome, set-up validation, FEN and UCI move  *)
(*     text parsing;                                                       *)
(*   - rubot::Bot::select by a choice among the actions the adapter offers *)
(*     (None when the adapter reports that the bot's player is not to move *)
(*     or offers no action);                                               *)
(*   - vampirc_uci::parse by the structured messages it delivers.          *)
(***************************************************************************)
EXTENDS Integers, Sequences, FiniteSets, TLC

\* Longest line of play (in plies since set-up) the model follows.
MaxPly == 2

None == "none"

(***************************************************************************)
(* shakmaty: colours, roles, squares, boards                               *)
(***************************************************************************)
Color == {"white", "black"}

Other(c) == IF c = "white" THEN "black" ELSE "white"

Role == {"pawn", "knight", "bishop", "rook", "queen", "king"}

\* The reduced board of the rules engine stand-in: files a..c, ranks 1..4.
Files == 1 .. 3
Ranks == 1 .. 4

TopOf(S) == CHOOSE x \in S : \A y \in S : y <= x

Squares == Files \X Ranks

Piece(c, r) == [color |-> c, role |-> r]

\* What a board holds on an empty square.
NoPiece == Piece(None, None)

Abs(x) == IF x < 0 THEN -x ELSE x

Sgn(x) == IF x < 0 THEN -1 ELSE IF x > 0 THEN 1 ELSE 0

Max2(x, y) == IF x < y THEN y ELSE x

\* A board maps every square to a piece or to NoPiece.
EmptyBoard == [s \in Squares |-> NoPiece]

Occupied(b) == {s \in Squares : b[s] # NoPiece}

OfColor(b, c) == {s \in Occupied(b) : b[s].color = c}

OfRole(b, r) == {s \in Occupied(b) : b[s].role = r}

\* The squares strictly between two squares of one line.
Between(from, to) ==
    LET df == to[1] - from[1]
        dr == to[2] - from[2]
        n  == Max2(Abs(df), Abs(dr))
    IN  {<<from[1] + k * Sgn(df), from[2] + k * Sgn(dr)>> : k \in 1 .. (n - 1)}

ClearPath(b, from, to) == \A s \in Between(from, to) : b[s] = NoPiece

Forward(c) == IF c = "white" THEN 1 ELSE -1

\* The piece on `from` attacks `to`.
Attacks(b, from, to) ==
    LET p  == b[from]
        df == to[1] - from[1]
        dr == to[2] - from[2]
        straight == (df = 0) # (dr = 0)
        diagonal == Abs(df) = Abs(dr) /\ df # 0
    IN  /\ p # NoPiece
        /\ CASE p.role = "king"   -> Max2(Abs(df), Abs(dr)) = 1
             [] p.role = "knight" -> {Abs(df), Abs(dr)} = {1, 2}
             [] p.role = "rook"   -> straight /\ ClearPath(b, from, to)
             [] p.role = "bishop" -> diagonal /\ ClearPath(b, from, to)
             [] p.role = "queen"  -> (straight \/ diagonal) /\ ClearPath(b, from, to)
             [] p.role = "pawn"   -> Abs(df) = 1 /\ dr = Forward(p.color)

\* The king of colour c is attacked by a piece of the other colour.
InCheck(b, c) ==
    \E k \in OfColor(b, c) \cap OfRole(b, "king") :
        \E s \in OfColor(b, Other(c)) : Attacks(b, s, k)

(***************************************************************************)
(* shakmaty::Chess: a position is a board, the side to move and the count  *)
(* of plies played since it was set up.                                    *)
(***************************************************************************)
Chess(b, t, n) == [board |-> b, turn |-> t, plies |-> n]

\* shakmaty::Move::Normal
Move(r, from, cap, to, promo) ==
    [role |-> r, from |-> from, capture |-> cap, to |-> to, promotion |-> promo]

PromotionRoles == {"queen", "rook", "bishop", "knight"}

PromotionRank(c) == IF c = "white" THEN TopOf(Ranks) ELSE 1

\* Position::play_unchecked: the piece leaves `from`, lands on `to` (as the
\* promotion role if there is one), whatever stood there is gone, and the
\* turn passes.  Legality is not looked at.
play_unchecked(g, m) ==
    LET placed == Piece(g.turn, IF m.promotion = None THEN m.role ELSE m.promotion)
    IN  Chess([g.board EXCEPT ![m.from] = NoPiece, ![m.to] = placed],
              Other(g.turn), g.plies + 1)

\* The moves from `from` to `to` that obey the piece's movement: none, one,
\* or one for each promotion role.
MovesBetween(g, from, to) ==
    LET b    == g.board
        c    == g.turn
        p    == b[from]
        free == b[to] = NoPiece
        foe  == b[to].color = Other(c)
        can  == /\ p.color = c
                /\ to # from
                /\ IF p.role = "pawn"
                   THEN \/ free /\ to[1] = from[1] /\ to[2] = from[2] + Forward(c)
                        \/ foe /\ Attacks(b, from, to)
                   ELSE (free \/ foe) /\ Attacks(b, from, to)
    IN  IF ~can THEN {}
        ELSE IF p.role = "pawn" /\ to[2] = PromotionRank(c)
             THEN {Move("pawn", from, b[to].role, to, r) : r \in PromotionRoles}
             ELSE {Move(p.role, from, b[to].role, to, None)}

\* Position::is_legal: the move obeys the piece's movement and does not
\* leave the mover's own king attacked.
is_legal(g, m) ==
    /\ m \in MovesBetween(g, m.from, m.to)
    /\ ~InCheck(play_unchecked(g, m).board, g.turn)

\* Position::legals
legals(g) ==
    UNION {UNION {{m \in MovesBetween(g, from, to) : is_legal(g, m)} : to \in Squares}
           : from \in OfColor(g.board, g.turn)}

\* Position::has_insufficient_material
HasInsufficientMaterial(b, c) ==
    LET own == OfColor(b, c)
        dark(s) == (s[1] + s[2]) % 2 = 0
    IN  IF own \cap (OfRole(b, "pawn") \cup OfRole(b, "rook") \cup OfRole(b, "queen")) # {}
        THEN FALSE
        ELSE IF own \cap OfRole(b, "knight") # {}
        THEN /\ Cardinality(own) <= 2
             /\ OfColor(b, Other(c)) \ (OfRole(b, "king") \cup OfRole(b, "queen")) = {}
        ELSE IF own \cap OfRole(b, "bishop") # {}
        THEN /\ \/ \A s \in OfRole(b, "bishop") : dark(s)
                \/ \A s \in OfRole(b, "bishop") : ~dark(s)
             /\ OfRole(b, "pawn") = {}
             /\ OfRole(b, "knight") = {}
        ELSE TRUE

IsInsufficientMaterial(b) ==
    HasInsufficientMaterial(b, "white") /\ HasInsufficientMaterial(b, "black")

\* shakmaty::Outcome, and the absent outcome of a game that goes on.
Draw == [kind |-> "draw", winner |-> None]
Decisive(w) == [kind |-> "decisive", winner |-> w]
NoOutcome == [kind |-> None, winner |-> None]

\* Position::outcome: NoOutcome while the game goes on.
outcome(g) ==
    IF IsInsufficientMaterial(g.board) THEN Draw
    ELSE IF legals(g) = {}
         THEN IF InCheck(g.board, g.turn) THEN Decisive(Other(g.turn)) ELSE Draw
         ELSE NoOutcome

(***************************************************************************)
(* shakmaty::fen and Chess::from_setup                                     *)
(***************************************************************************)
Err == [ok |-> FALSE]
Ok(v) == [ok |-> TRUE, val |-> v]

DigitVal == ("1" :> 1) @@ ("2" :> 2) @@ ("3" :> 3) @@ ("4" :> 4)
FileVal == ("a" :> 1) @@ ("b" :> 2) @@ ("c" :> 3)

PieceVal ==
    ("P" :> Piece("white", "pawn")) @@ ("N" :> Piece("white", "knight")) @@
    ("B" :> Piece("white", "bishop")) @@ ("R" :> Piece("white", "rook")) @@
    ("Q" :> Piece("white", "queen")) @@ ("K" :> Piece("white", "king")) @@
    ("p" :> Piece("black", "pawn")) @@ ("n" :> Piece("black", "knight")) @@
    ("b" :> Piece("black", "bishop")) @@ ("r" :> Piece("black", "rook")) @@
    ("q" :> Piece("black", "queen")) @@ ("k" :> Piece("black", "king"))

\* The board field of a FEN, read left to right from the top rank: digits
\* skip files, letters place pieces, "/" ends a rank that must be full.
RECURSIVE ParseBoard(_, _, _, _, _)
ParseBoard(txt, i, f, r, b) ==
    IF i > Len(txt)
    THEN IF r = 1 /\ f = TopOf(Files) + 1 THEN Ok(b) ELSE Err
    ELSE LET ch == txt[i]
         IN  IF ch = "/"
             THEN IF f = TopOf(Files) + 1 /\ r > 1
                  THEN ParseBoard(txt, i + 1, 1, r - 1, b)
                  ELSE Err
             ELSE IF ch \in DOMAIN DigitVal
             THEN IF f + DigitVal[ch] <= TopOf(Files) + 1
                  THEN ParseBoard(txt, i + 1, f + DigitVal[ch], r, b)
                  ELSE Err
             ELSE IF ch \in DOMAIN PieceVal
             THEN IF f <= TopOf(Files)
                  THEN ParseBoard(txt, i + 1, f + 1, r, [b EXCEPT ![<<f, r>>] = PieceVal[ch]])
                  ELSE Err
             ELSE Err

\* Index of the first blank of a text, or Len + 1.
RECURSIVE BlankAt(_, _)
BlankAt(txt, i) ==
    IF i > Len(txt) \/ txt[i] = " " THEN i ELSE BlankAt(txt, i + 1)

\* Fen::from_ascii: the board field, then the side to move (white when the
\* field is missing).  The result is a Setup: a board and a turn.
Fen_from_ascii(txt) ==
    LET cut   == BlankAt(txt, 1)
        board == ParseBoard(SubSeq(txt, 1, cut - 1), 1, 1, TopOf(Ranks), EmptyBoard)
        rest  == SubSeq(txt, cut + 1, Len(txt))
    IN  IF ~board.ok THEN Err
        ELSE IF rest = <<>> THEN Ok([board |-> board.val, turn |-> "white"])
        ELSE IF rest = <<"w">> THEN Ok([board |-> board.val, turn |-> "white"])
        ELSE IF rest = <<"b">> THEN Ok([board |-> board.val, turn |-> "black"])
        ELSE Err

\* Chess::from_setup: one king a side, no pawn on a back rank, and the side
\* that is not to move is not in check.
from_setup(setup) ==
    LET b == setup.board
    IN  IF /\ \A c \in Color : Cardinality(OfColor(b, c) \cap OfRole(b, "king")) = 1
           /\ \A s \in OfRole(b, "pawn") : s[2] \notin {1, TopOf(Ranks)}
           /\ ~InCheck(b, Other(setup.turn))
        THEN Ok(Chess(b, setup.turn, 0))
        ELSE Err

\* Chess::default(): the initial arrangement of the reduced board, white to
\* move.
DefaultBoard ==
    [s \in Squares |->
        CASE s = <<2, 1>> -> Piece("white", "king")
          [] s = <<1, 2>> -> Piece("white", "pawn")
          [] s = <<2, 4>> -> Piece("black", "king")
          [] s = <<1, 3>> -> Piece("black", "pawn")
          [] OTHER -> NoPiece]

ChessDefault == Chess(DefaultBoard, "white", 0)

(***************************************************************************)
(* shakmaty::uci                                                           *)
(***************************************************************************)
PromoVal == ("q" :> "queen") @@ ("r" :> "rook") @@ ("b" :> "bishop") @@ ("n" :> "knight")

UciMove(from, to, promo) == [from |-> from, to |-> to, promotion |-> promo]

\* Uci::from_ascii: "a2a3" or "a3a4q".
Uci_from_ascii(txt) ==
    IF /\ Len(txt) \in {4, 5}
       /\ txt[1] \in DOMAIN FileVal /\ txt[2] \in DOMAIN DigitVal
       /\ txt[3] \in DOMAIN FileVal /\ txt[4] \in DOMAIN DigitVal
       /\ Len(txt) = 5 => txt[5] \in DOMAIN PromoVal
    THEN Ok(UciMove(<<FileVal[txt[1]], DigitVal[txt[2]]>>,
                    <<FileVal[txt[3]], DigitVal[txt[4]]>>,
                    IF Len(txt) = 5 THEN PromoVal[txt[5]] ELSE None))
    ELSE Err

\* Uci::to_move: the move of the piece on `from`, accepted only if it is
\* legal in the position.
to_move(uci, g) ==
    IF g.board[uci.from] = NoPiece THEN Err
    ELSE LET candidate == Move(g.board[uci.from].role, uci.from, g.board[uci.to].role,
                               uci.to, uci.promotion)
         IN  IF is_legal(g, candidate) THEN Ok(candidate) ELSE Err

\* Uci::from_move, then its Display.
FileChar(f) == CHOOSE ch \in DOMAIN FileVal : FileVal[ch] = f
DigitChar(r) == CHOOSE ch \in DOMAIN DigitVal : DigitVal[ch] = r
PromoChar(p) == CHOOSE ch \in DOMAIN PromoVal : PromoVal[ch] = p

Uci_from_move(g, m) ==
    <<FileChar(m.from[1]), DigitChar(m.from[2]), FileChar(m.to[1]), DigitChar(m.to[2])>>
        \o (IF m.promotion = None THEN <<>> ELSE <<PromoChar(m.promotion)>>)

(***************************************************************************)
(* impl Game for Chess (main.rs 22-68)                                     *)
(***************************************************************************)
\* actions as the spec words it: nothing is offered to the player who is not
\* to move.
actions_to_move_only(g, player) ==
    <<player = g.turn, IF player = g.turn THEN legals(g) ELSE {}>>

\* actions with the flag telling whether anyone can move at all.
actions_any_player(g, player) == <<legals(g) # {}, legals(g)>>

\* Game::actions
actions(g, player) == <<player = g.turn, legals(g)>>

\* The values with a queen worth as much as a won game.
Value_queen_as_win(role) ==
    CASE role = "pawn"   -> 10
      [] role = "knight" -> 30
      [] role = "bishop" -> 30
      [] role = "rook"   -> 50
      [] role = "queen"  -> 2147483647
      [] role = "king"   -> 900

\* The per-role value of execute's material count.
Value(role) ==
    CASE role = "pawn"   -> 10
      [] role = "knight" -> 30
      [] role = "bishop" -> 30
      [] role = "rook"   -> 50
      [] role = "queen"  -> 90
      [] role = "king"   -> 900

I32Max == 2147483647
I32Min == -I32Max - 1

\* fitness += value and fitness -= value on i32, for a value from 0 to
\* i32::MAX: the sum when it fits; past either end the addition overflows,
\* and `val` is what wrap-around leaves.
AddI32(fitness, value) ==
    IF fitness > I32Max - value
    THEN [val |-> (fitness - I32Max) + (value - 1) + I32Min, overflow |-> TRUE]
    ELSE [val |-> fitness + value, overflow |-> FALSE]

SubI32(fitness, value) ==
    IF fitness < I32Min + value
    THEN [val |-> (fitness - I32Min) - (value - 1) + I32Max, overflow |-> TRUE]
    ELSE [val |-> fitness - value, overflow |-> FALSE]

\* The loop with the `else` branch lost: only the player's own pieces count.
RECURSIVE Material_own_only(_, _, _, _)
Material_own_only(b, todo, player, fitness) ==
    IF todo = {} THEN fitness
    ELSE LET s == CHOOSE x \in todo : TRUE
             step == IF b[s].color = player THEN AddI32(fitness.val, Value(b[s].role))
                     ELSE [val |-> fitness.val, overflow |-> FALSE]
         IN  Material_own_only(b, todo \ {s}, player,
                               [val |-> step.val,
                                overflow |-> fitness.overflow \/ step.overflow])

\* The loop over board().pieces(): fitness += value for the player's own
\* pieces, fitness -= value for the others; `fitness` is the count so far
\* and whether an addition has overflowed.
RECURSIVE Material(_, _, _, _)
Material(b, todo, player, fitness) ==
    IF todo = {} THEN fitness
    ELSE LET s == CHOOSE x \in todo : TRUE
             value == Value(b[s].role)
             step == IF b[s].color = player THEN AddI32(fitness.val, value)
                     ELSE SubI32(fitness.val, value)
         IN  Material(b, todo \ {s}, player,
                      [val |-> step.val, overflow |-> fitness.overflow \/ step.overflow])

\* `let mut fitness = 0`
NoFitness == [val |-> 0, overflow |-> FALSE]

\* The fitness with the player compared to the side to move of the position
\* reached (the loser) instead of to the winner.
Fitness_to_move_wins(g, player) ==
    LET o == outcome(g)
    IN  IF o # NoOutcome
        THEN IF o = Draw THEN 0
             ELSE IF g.turn = player THEN I32Max ELSE I32Min
        ELSE Material(g.board, Occupied(g.board), player, NoFitness).val

\* The fitness execute returns for the position g it has reached.
Fitness(g, player) ==
    LET o == outcome(g)
    IN  IF o # NoOutcome
        THEN IF o = Draw THEN 0
             ELSE IF o.winner = player THEN I32Max ELSE I32Min
        ELSE Material(g.board, Occupied(g.board), player, NoFitness).val

\* Whether the material count of the position g overflows.
Overflows(g, player) ==
    /\ outcome(g) = NoOutcome
    /\ Material(g.board, Occupied(g.board), player, NoFitness).overflow

\* execute scoring the position it was called on, not the one it reaches.
execute_scores_before(g, action, player) ==
    [game |-> play_unchecked(g, action), fitness |-> Fitness(g, player),
     overflow |-> Overflows(g, player)]

\* Game::execute: plays the action on the wrapped position, then scores the
\* position reached. An overflow of the count is a panic in a build that
\* checks overflow and wraps around in one that does not.
execute(g, action, player) ==
    LET played == play_unchecked(g, action)
    IN  [game |-> played, fitness |-> Fitness(played, player),
         overflow |-> Overflows(played, player)]

(***************************************************************************)
(* Board descriptions the controller sends                                 *)
(***************************************************************************)
\* "1k1/3/3/1K1 w": kings only: a draw by insufficient material with legal moves left
FenKings == <<"1", "k", "1", "/", "3", "/", "3", "/", "1", "K", "1", " ", "w">>

\* "k2/3/1K1/2R w": white mates with c1c4
FenMateW == <<"k", "2", "/", "3", "/", "1", "K", "1", "/", "2", "R", " ", "w">>

\* "2r/1k1/3/K2 b": black mates with c4c1
FenMateB == <<"2", "r", "/", "1", "k", "1", "/", "3", "/", "K", "2", " ", "b">>

\* "1k1/2R/3/K2 b": black takes the rook with b4c3 and only the kings are left
FenCapture == <<"1", "k", "1", "/", "2", "R", "/", "3", "/", "K", "2", " ", "b">>

\* "2k/P2/3/K2 w": white promotes with a3a4q, a3a4r, a3a4b or a3a4n
FenPromote == <<"2", "k", "/", "P", "2", "/", "3", "/", "K", "2", " ", "w">>

\* "k1R/3/1K1/3 b": black is checkmated: no legal move
FenMated == <<"k", "1", "R", "/", "3", "/", "1", "K", "1", "/", "3", " ", "b">>

\* "k2/2P/1K1/3 b": black is stalemated: no legal move
FenStalemate == <<"k", "2", "/", "2", "P", "/", "1", "K", "1", "/", "3", " ", "b">>

\* "1k1/3/3 w": malformed: a rank is missing
FenShort == <<"1", "k", "1", "/", "3", "/", "3", " ", "w">>

\* "3/3/3/1K1 w": well-formed, but no position: black has no king
FenNoKing == <<"3", "/", "3", "/", "3", "/", "1", "K", "1", " ", "w">>

\* "k2/p2/P2/K2 w": white has the one move a1b1
FenQuiet == <<"k", "2", "/", "p", "2", "/", "P", "2", "/", "K", "2", " ", "w">>

\* "1k1/1r1/1R1/1K1 w": white takes the rook with b2b3, black takes back
FenTrade == <<"1", "k", "1", "/", "1", "r", "1", "/", "1", "R", "1", "/", "1", "K", "1", " ", "w">>

\* The board descriptions of the session, of the adapter and of the clock.
Fens == {FenCapture, FenMated, FenStalemate, FenShort, FenNoKing}

GameFens ==
    {FenKings, FenMateW, FenMateB, FenCapture, FenPromote, FenMated, FenStalemate,
     FenTrade}

ClockFens == {FenCapture, FenQuiet}

(***************************************************************************)
(* Option<T>, and u64 arithmetic on 16-bit limbs (least significant limb   *)
(* first), so that the width of move_time is kept.                         *)
(***************************************************************************)
Some(v) == [some |-> TRUE, val |-> v]
NoneOpt == [some |-> FALSE]

LimbBase == 2 ^ 16

\* The limbs of a natural number below LimbBase ^ 2.
Limbs(n, len) ==
    [i \in 1 .. len |-> IF i = 1 THEN n % LimbBase ELSE IF i = 2 THEN n \div LimbBase ELSE 0]

U64(n) == Limbs(n, 4)

U64Max == [i \in 1 .. 4 |-> LimbBase - 1]

\* x + y exactly: one limb longer than the operands.
RECURSIVE AddFrom(_, _, _, _)
AddFrom(x, y, i, carry) ==
    IF i > Len(x) THEN <<carry>>
    ELSE LET sum == x[i] + y[i] + carry
         IN  <<sum % LimbBase>> \o AddFrom(x, y, i + 1, sum \div LimbBase)

AddExact(x, y) == AddFrom(x, y, 1, 0)

\* x / d for a small divisor d, rounding down.
RECURSIVE DivFrom(_, _, _, _)
DivFrom(x, d, i, rem) ==
    IF i = 0 THEN <<>>
    ELSE LET cur == rem * LimbBase + x[i]
         IN  DivFrom(x, d, i - 1, cur % d) \o <<cur \div d>>

Div(x, d) == DivFrom(x, d, Len(x), 0)

RECURSIVE LeqFrom(_, _, _)
LeqFrom(x, y, i) ==
    IF i = 0 THEN TRUE
    ELSE IF x[i] # y[i] THEN x[i] < y[i]
    ELSE LeqFrom(x, y, i - 1)

\* std::cmp::min
Min(x, y) == IF LeqFrom(x, y, Len(x)) THEN x ELSE y

\* u64 `+`: the sum that fits in 64 bits, and whether the exact sum did not.
AddU64(x, y) ==
    LET exact == AddExact(x, y)
    IN  [val |-> SubSeq(exact, 1, 4), overflow |-> exact[5] # 0]

(***************************************************************************)
(* The session of main (main.rs 76-186)                                    *)
(***************************************************************************)
VARIABLES
    game,       \* `game`: the Chess the session holds
    bot,        \* `bot`: the player the rubot::Bot is bound to
    status,     \* "running", "aborted" (a panic) or "exited" (exit(0))
    out,        \* the lines the handling of the last message printed
    logged,     \* the entries the handling of the last message appended to ./log
    move_time,  \* `move_time` as the last message's search handed it to select
    last        \* the last message handled (or adapter call made)

vars == <<game, bot, status, out, logged, move_time, last>>

\* move_time exists only inside the Go arm: what the variable holds when the
\* last message was no search request.
NoTime == <<>>

DefaultMoveTime == 5000
Cap == 7000

\* The replies of respond and of the bestmove println.
IdReply == [kind |-> "id", name |-> "rubot", author |-> "lncr/Bastian Kauschke"]
\* The handshake answered like a readiness check.
UciOkReply_as_readyok == [kind |-> "readyok"]

UciOkReply == [kind |-> "uciok"]
ReadyOkReply == [kind |-> "readyok"]
BestMoveReply(txt) == [kind |-> "bestmove", move |-> txt]

(***************************************************************************)
(* UciMessage::Position                                                    *)
(***************************************************************************)
\* The position the command starts from; a board description that does not
\* parse, or is no position, makes an unwrap panic.
PositionBase(g, startpos, fen) ==
    IF startpos THEN Ok(ChessDefault)
    ELSE IF fen.some
    THEN LET setup == Fen_from_ascii(fen.val)
         IN  IF setup.ok THEN from_setup(setup.val) ELSE Err
    ELSE Ok(g)

\* The loop over `moves`: each text is parsed, translated in the position
\* reached so far, and played; the first text that fails makes an unwrap
\* panic, with the earlier moves already played.
RECURSIVE PlayMoves(_, _, _)
PlayMoves(g, moves, i) ==
    IF i > Len(moves) THEN [ok |-> TRUE, game |-> g]
    ELSE LET uci == Uci_from_ascii(moves[i])
             mov == IF uci.ok THEN to_move(uci.val, g) ELSE Err
         IN  IF mov.ok
             THEN PlayMoves(play_unchecked(g, mov.val), moves, i + 1)
             ELSE [ok |-> FALSE, game |-> g]

\* The bot left bound as main constructs it, Bot::new(Color::Black).
Rebind_never(g) == "black"

\* rubot::Bot::new(game.0.turn())
Rebind(g) == g.turn

\* The whole arm: the session it leaves.
PositionArm(g, b, startpos, fen, moves) ==
    LET base == PositionBase(g, startpos, fen)
    IN  IF ~base.ok THEN [status |-> "aborted", game |-> g, bot |-> b]
        ELSE LET played == PlayMoves(base.val, moves, 1)
             IN  IF played.ok
                 THEN [status |-> "running", game |-> played.game, bot |-> Rebind(played.game)]
                 ELSE [status |-> "aborted", game |-> played.game, bot |-> b]

(***************************************************************************)
(* UciMessage::Go                                                          *)
(***************************************************************************)
\* UciTimeControl
Ponder == [mode |-> "ponder"]
Infinite == [mode |-> "infinite"]
MoveTime(t) == [mode |-> "movetime", time |-> t]
TimeLeft(wt, bt, wi, bi, mtg) ==
    [mode |-> "timeleft", white_time |-> wt, black_time |-> bt,
     white_increment |-> wi, black_increment |-> bi, moves_to_go |-> mtg]

\* UciSearchControl
SearchControl(sm, mate, depth, nodes) ==
    [search_moves |-> sm, mate |-> mate, depth |-> depth, nodes |-> nodes]

\* min(inc / 2 + time / 20, 7000 + inc) in u64: the value when nothing
\* overflows, and whether `7000 + inc` overflowed (`inc / 2 + time / 20`
\* cannot).
ClockBudget(time, inc) ==
    LET spend == AddU64(Div(inc, 2), Div(time, 20))
        limit == AddU64(U64(Cap), inc)
    IN  [val |-> Min(spend.val, limit.val), overflow |-> limit.overflow]

\* The arm without line 157: a fixed move time is not taken over.
TimeBudget_keeps_default(g, time_control) ==
    [val |-> U64(DefaultMoveTime), overflow |-> FALSE,
     logs |-> IF /\ time_control.some
                 /\ \/ time_control.val.mode \in {"ponder", "infinite"}
                    \/ /\ time_control.val.mode = "timeleft"
                       /\ time_control.val.moves_to_go.some
              THEN 1 ELSE 0]

\* The time control part of the arm: move_time, the log entries written,
\* and whether an addition overflowed.
TimeBudget(g, time_control) ==
    LET default == [val |-> U64(DefaultMoveTime), overflow |-> FALSE, logs |-> 0]
    IN  IF ~time_control.some THEN default
        ELSE LET tc == time_control.val
             IN  IF tc.mode \in {"ponder", "infinite"} THEN [default EXCEPT !.logs = 1]
                 ELSE IF tc.mode = "movetime"
                 THEN [default EXCEPT !.val = tc.time]
                 ELSE LET logs == IF tc.moves_to_go.some THEN 1 ELSE 0
                          time == IF g.turn = "black" THEN tc.black_time ELSE tc.white_time
                          inc  == IF g.turn = "black" THEN tc.black_increment
                                  ELSE tc.white_increment
                      IN  IF time.some /\ inc.some
                          THEN LET budget == ClockBudget(time.val, inc.val)
                               IN  [val |-> budget.val, overflow |-> budget.overflow,
                                    logs |-> logs]
                          ELSE [default EXCEPT !.logs = logs]

\* The search control part of the arm: the log entries written.
SearchLogs(search_control) ==
    IF /\ search_control.some
       /\ \/ search_control.val.search_moves # <<>>
          \/ search_control.val.mate.some
          \/ search_control.val.depth.some
          \/ search_control.val.nodes.some
    THEN 1 ELSE 0

\* rubot::Bot::select: what the bot may return for the game it is shown.
\* It asks the adapter for its player's actions; it returns None when the
\* player is not to move or has no action, and one of the actions otherwise.
select(b, g) ==
    LET acts == actions(g, b)
    IN  IF acts[1] /\ acts[2] # {} THEN {Some(m) : m \in acts[2]} ELSE {NoneOpt}

\* The arm without its println: the bot's action is dropped.
GoArm_silent(g, b, time_control, search_control, chosen, overflow_checks) ==
    LET budget == TimeBudget(g, time_control)
    IN  [status |-> IF (budget.overflow /\ overflow_checks) \/ ~chosen.some
                    THEN "aborted" ELSE "running",
         move_time |-> IF budget.overflow /\ overflow_checks THEN NoTime ELSE budget.val,
         logged |-> budget.logs + SearchLogs(search_control),
         out |-> <<>>]

\* The whole arm, for the action the bot chose and for a build that checks
\* overflow (a panic) or not (wrap-around).
GoArm(g, b, time_control, search_control, chosen, overflow_checks) ==
    LET budget == TimeBudget(g, time_control)
        logs   == budget.logs
    IN  IF budget.overflow /\ overflow_checks
        THEN [status |-> "aborted", move_time |-> NoTime, logged |-> logs, out |-> <<>>]
        ELSE IF ~chosen.some
        THEN [status |-> "aborted", move_time |-> budget.val,
              logged |-> logs + SearchLogs(search_control), out |-> <<>>]
        ELSE [status |-> "running", move_time |-> budget.val,
              logged |-> logs + SearchLogs(search_control),
              out |-> <<BestMoveReply(Uci_from_move(g, chosen.val))>>]

(***************************************************************************)
(* What the controller sends                                               *)
(***************************************************************************)
\* Move texts that fail: one that does not parse, one that parses and is
\* legal in none of the positions met.
BadTexts == {<<"a", "0", "a", "1">>, <<"b", "1", "b", "3">>}

\* Move lists of at most n moves for a command that starts from g: legal
\* lines of play, each also cut short by a text that fails.
RECURSIVE MoveLists(_, _)
MoveLists(g, n) ==
    IF n <= 0 THEN {<<>>}
    ELSE {<<>>} \cup {<<t>> : t \in BadTexts}
         \cup UNION {{<<Uci_from_move(g, m)>> \o rest :
                         rest \in MoveLists(play_unchecked(g, m), n - 1)} : m \in legals(g)}

Min2(x, y) == IF x < y THEN x ELSE y

\* The move lists sent after "startpos" and after each board description.
StartposLists == MoveLists(ChessDefault, MaxPly)

FenLists ==
    [f \in Fens \cup ClockFens |->
        LET base == PositionBase(ChessDefault, FALSE, Some(f))
        IN  IF base.ok THEN MoveLists(base.val, MaxPly) ELSE {<<>>}]

\* The lists of at most `depth` moves among them.
Shorter(lists, depth) == {l \in lists : Len(l) <= depth}

\* The search requests of the session: no time control, or a fixed move time.
TimeControls == {NoneOpt, Some(MoveTime(U64(100)))}

SearchControls == {NoneOpt, Some(SearchControl(<<>>, NoneOpt, Some(3), NoneOpt))}

\* The search requests of the clock: every combination of present and absent
\* clock values, small and at the top of u64.
ClockControls ==
    {Some(TimeLeft(wt, bt, wi, bi, mtg)) :
        wt \in {NoneOpt, Some(U64(60000))}, bt \in {NoneOpt, Some(U64(30000))},
        wi \in {NoneOpt, Some(U64(1000)), Some(U64Max)},
        bi \in {NoneOpt, Some(U64(500)), Some(U64Max)},
        mtg \in {NoneOpt, Some(40)}}

OtherMessages == {"stop", "unknown"}

(***************************************************************************)
(* The arms of the match in main's loop, one action each                   *)
(***************************************************************************)
Uci ==
    /\ status = "running"
    /\ out' = <<IdReply, UciOkReply>>
    /\ logged' = 0
    /\ last' = [kind |-> "uci"]
    /\ move_time' = NoTime
    /\ UNCHANGED <<game, bot, status>>

IsReady ==
    /\ status = "running"
    /\ out' = <<ReadyOkReply>>
    /\ logged' = 0
    /\ last' = [kind |-> "isready"]
    /\ move_time' = NoTime
    /\ UNCHANGED <<game, bot, status>>

\* The new-game arm binding the bot anew, as the position arm does.
UciNewGame_rebinds ==
    /\ status = "running"
    /\ game' = ChessDefault
    /\ bot' = ChessDefault.turn
    /\ out' = <<>>
    /\ logged' = 0
    /\ last' = [kind |-> "ucinewgame"]
    /\ move_time' = NoTime
    /\ UNCHANGED status

UciNewGame ==
    /\ status = "running"
    /\ game' = ChessDefault
    /\ out' = <<>>
    /\ logged' = 0
    /\ last' = [kind |-> "ucinewgame"]
    /\ move_time' = NoTime
    /\ UNCHANGED <<bot, status>>

\* The controller's position commands: "startpos" (no board description),
\* "fen <description>", or neither, each with a move list of at most
\* `depth` moves.
PositionWith(fens, depth) ==
    /\ status = "running"
    /\ \E startpos \in BOOLEAN :
       \E fen \in IF startpos THEN {NoneOpt} ELSE {NoneOpt} \cup {Some(f) : f \in fens} :
         \E moves \in IF startpos THEN Shorter(StartposLists, depth)
                       ELSE IF fen.some THEN Shorter(FenLists[fen.val], depth)
                       ELSE MoveLists(game, Min2(depth, MaxPly - game.plies)) :
           LET arm == PositionArm(game, bot, startpos, fen, moves)
           IN  /\ game' = arm.game
               /\ bot' = arm.bot
               /\ status' = arm.status
               /\ last' = [kind |-> "position", startpos |-> startpos,
                           fen |-> fen, moves |-> moves]
    /\ out' = <<>>
    /\ logged' = 0
    /\ move_time' = NoTime

Position == PositionWith(Fens, MaxPly)

GoWith(time_controls, search_controls) ==
    /\ status = "running"
    /\ \E chosen \in select(bot, game), time_control \in time_controls,
          search_control \in search_controls, overflow_checks \in BOOLEAN :
         LET arm == GoArm(game, bot, time_control, search_control, chosen, overflow_checks)
         IN  /\ status' = arm.status
             /\ move_time' = arm.move_time
             /\ logged' = arm.logged
             /\ out' = arm.out
             /\ last' = [kind |-> "go", time_control |-> time_control,
                         search_control |-> search_control]
    /\ UNCHANGED <<game, bot>>

Go == GoWith(TimeControls, SearchControls)

Quit ==
    /\ status = "running"
    /\ status' = "exited"
    /\ out' = <<>>
    /\ logged' = 0
    /\ last' = [kind |-> "quit"]
    /\ move_time' = NoTime
    /\ UNCHANGED <<game, bot>>

\* The default arm taken for a new-game signal.
Unhandled_as_newgame ==
    /\ status = "running"
    /\ \E k \in OtherMessages : last' = [kind |-> k]
    /\ game' = ChessDefault
    /\ out' = <<>>
    /\ logged' = 1
    /\ move_time' = NoTime
    /\ UNCHANGED <<bot, status>>

Unhandled ==
    /\ status = "running"
    /\ \E k \in OtherMessages : last' = [kind |-> k]
    /\ out' = <<>>
    /\ logged' = 1
    /\ move_time' = NoTime
    /\ UNCHANGED <<game, bot, status>>

Init ==
    /\ game = ChessDefault
    /\ bot = "black"
    /\ status = "running"
    /\ out = <<>>
    /\ logged = 0
    /\ move_time = NoTime
    /\ last = [kind |-> "start"]

Next == Uci \/ IsReady \/ UciNewGame \/ Position \/ Go \/ Quit \/ Unhandled

Spec == Init /\ [][Next]_vars

(***************************************************************************)
(* The clock: the session with search requests in clock mode, on positions *)
(* set by board descriptions with white and with black to move.            *)
(***************************************************************************)
PositionClock == PositionWith(ClockFens, 0)

GoClock == GoWith(ClockControls, {NoneOpt})

\* The session after "position startpos".
InitClock ==
    /\ game = ChessDefault
    /\ bot = "white"
    /\ status = "running"
    /\ out = <<>>
    /\ logged = 0
    /\ move_time = NoTime
    /\ last = [kind |-> "position", startpos |-> TRUE, fen |-> NoneOpt, moves |-> <<>>]

NextClock == PositionClock \/ GoClock

SpecClock == InitClock /\ [][NextClock]_vars

(***************************************************************************)
(* The search request in all its forms: every time control mode and every  *)
(* field of the search constraints, in the session as it starts and on     *)
(* positions set with white and with black to move.                        *)
(***************************************************************************)
\* A move text for `searchmoves`.
SearchMoveText == <<"a", "1", "b", "1">>

\* No time control, the two modes the arm only logs, fixed move times from
\* zero to the top of u64, and a clock with and without moves-to-go.
ModeControls ==
    {NoneOpt, Some(Ponder), Some(Infinite),
     Some(MoveTime(U64(0))), Some(MoveTime(U64(2000))), Some(MoveTime(U64Max))}
    \cup {Some(TimeLeft(Some(U64(60000)), Some(U64(30000)),
                        Some(U64(1000)), Some(U64(500)), mtg)) :
              mtg \in {NoneOpt, Some(40)}}

\* No search constraints, every combination of search moves, mate and node
\* limit, and a depth limit.
FieldControls ==
    {NoneOpt, Some(SearchControl(<<>>, NoneOpt, Some(3), NoneOpt))}
    \cup {Some(SearchControl(sm, mate, NoneOpt, nodes)) :
              sm \in {<<>>, <<SearchMoveText>>}, mate \in {NoneOpt, Some(2)},
              nodes \in {NoneOpt, Some(1000)}}

GoSearch == GoWith(ModeControls, FieldControls)

NextSearch == PositionClock \/ GoSearch

SpecSearch == Init /\ [][NextSearch]_vars

(***************************************************************************)
(* The adapter as the search engine drives it: on its own copy of a        *)
(* position it asks for the actions of either player and executes legal    *)
(* actions for either player, one after the other.                         *)
(***************************************************************************)
GameStarts ==
    {ChessDefault} \cup {from_setup(Fen_from_ascii(f).val).val : f \in GameFens}

AdapterActions ==
    /\ status = "running"
    /\ \E player \in Color :
         LET r == actions(game, player)
         IN  last' = [kind |-> "actions", player |-> player,
                      active |-> r[1], actions |-> r[2]]
    /\ UNCHANGED <<game, bot, status, out, logged, move_time>>

\* For a build that checks overflow (a panic in the material count) or not
\* (wrap-around).
AdapterExecute ==
    /\ status = "running"
    /\ game.plies < MaxPly
    /\ \E action \in legals(game), player \in Color, overflow_checks \in BOOLEAN :
         LET r == execute(game, action, player)
         IN  /\ game' = r.game
             /\ status' = IF r.overflow /\ overflow_checks THEN "aborted" ELSE status
             /\ last' = [kind |-> "execute", player |-> player,
                         action |-> action, fitness |-> r.fitness]
    /\ UNCHANGED <<bot, out, logged, move_time>>

InitGame ==
    /\ game \in GameStarts
    /\ bot = "black"
    /\ status = "running"
    /\ out = <<>>
    /\ logged = 0
    /\ move_time = NoTime
    /\ last = [kind |-> "start"]

NextGame == AdapterActions \/ AdapterExecute

SpecGame == InitGame /\ [][NextGame]_vars

(***************************************************************************)
(* Claims                                                                  *)
(***************************************************************************)
LegalTexts(g) == {Uci_from_move(g, m) : m \in legals(g)}

\* C1: whenever a search request with a fixed move time of 100 ms follows a
\* new-game signal, the process keeps running and prints exactly one
\* bestmove line, naming a legal first move of the initial arrangement.
C1_NewGameThenGo ==
    [][(/\ last.kind = "ucinewgame"
        /\ last'.kind = "go"
        /\ last'.time_control = Some(MoveTime(U64(100))))
       => /\ status' = "running"
          /\ Len(out') = 1
          /\ out'[1].kind = "bestmove"
          /\ out'[1].move \in LegalTexts(ChessDefault)]_vars

\* C2: after every position command that completes, the bot is bound to the
\* side to move of the position the session holds.
C2_SeatIsSideToMove ==
    (last.kind = "position" /\ status = "running") => bot = game.turn

\* C2 happens: a completed position command with moves left the bot bound
\* to white, which is not the player it was constructed with.
C2_Witness ==
    /\ last.kind = "position"
    /\ status = "running"
    /\ Len(last.moves) >= 1
    /\ bot = "white"
    /\ game.turn = "white"

\* A position command fails in the position g: its board description is
\* malformed or no position, or one of its move texts is malformed or
\* illegal where it is applied.
CommandFails(g, cmd) ==
    LET base == PositionBase(g, cmd.startpos, cmd.fen)
    IN  ~base.ok \/ ~PlayMoves(base.val, cmd.moves, 1).ok

\* C3: a position command that fails is rejected: the process keeps running
\* and the session's position and bot are what they were.
C3_BadPositionRejected ==
    [][(last'.kind = "position" /\ CommandFails(game, last'))
       => /\ status' = "running"
          /\ game' = game
          /\ bot' = bot]_vars

\* C4: a search request for which the search engine has no action does not
\* end the process, and prints no bestmove line.
C4_NoActionNoAbort ==
    (last.kind = "go" /\ select(bot, game) = {NoneOpt})
        => status = "running" /\ out = <<>>

\* The budget of the claim, computed exactly (one limb more than u64).
ClaimedBudget(g, tc) ==
    LET time == IF g.turn = "black" THEN tc.black_time ELSE tc.white_time
        inc  == IF g.turn = "black" THEN tc.black_increment ELSE tc.white_increment
    IN  IF time.some /\ inc.some
        THEN LET spend == AddExact(Div(inc.val, 2), Div(time.val, 20))
                 limit == AddExact(U64(Cap), inc.val)
             IN  IF LeqFrom(spend, limit, 5) THEN spend ELSE limit
        ELSE U64(DefaultMoveTime) \o <<0>>

\* C5: a search request in clock mode searches with the budget
\* min(inc / 2 + time / 20, 7000 + inc) of the side to move, or with 5000
\* when one of the two values is absent.
C5_ClockBudget ==
    (last.kind = "go" /\ last.time_control.some /\ last.time_control.val.mode = "timeleft")
        => move_time \o <<0>> = ClaimedBudget(game, last.time_control.val)

\* The budget is the claimed one whenever `7000 + inc` of the side to move
\* fits in 64 bits (supports C5: the overflow is the only divergence).
ClockBudgetWhenItFits ==
    LET tc  == last.time_control.val
        inc == IF game.turn = "black" THEN tc.black_increment ELSE tc.white_increment
    IN  (/\ last.kind = "go"
         /\ tc.mode = "timeleft"
         /\ inc.some => ~AddU64(U64(Cap), inc.val).overflow)
            => /\ move_time \o <<0>> = ClaimedBudget(game, tc)
               /\ status = "running"

\* C6 as stated: actions offers nothing to the player who is not to move and
\* nothing in a position that has an outcome, and all legal actions
\* otherwise.
C6_EmptyWhenNotToMove ==
    last.kind = "actions"
        => last.actions = IF last.player # game.turn \/ outcome(game) # NoOutcome
                          THEN {} ELSE legals(game)

\* C6 amended: actions offers either player all legal actions of the side to
\* move (each moves a piece of that side); it offers none exactly when the
\* side to move has no legal move, and then the position has an outcome.
C6_AllLegalForEitherPlayer ==
    last.kind = "actions"
        => /\ last.actions = legals(game)
           /\ \A m \in last.actions : game.board[m.from].color = game.turn
           /\ last.actions = {} => outcome(game) # NoOutcome

\* C6 happens: the player who is not to move is offered actions, in a
\* position that has an outcome (a draw by insufficient material).
C6_Witness ==
    /\ last.kind = "actions"
    /\ last.player # game.turn
    /\ last.actions # {}
    /\ outcome(game) = Draw

\* C7: the flag of actions tells whether the player asked for is the side to
\* move, and the call leaves the position as it was.
C7_FlagIsToMove ==
    [][last'.kind = "actions"
       => /\ last'.active = (last'.player = game.turn)
          /\ game' = game]_vars

\* C7 happens with the flag false and with actions on offer.
C7_Witness ==
    /\ last.kind = "actions"
    /\ ~last.active
    /\ last.player = Other(game.turn)
    /\ last.actions # {}

\* C8: when execute reaches a position with an outcome, the fitness is
\* i32::MAX for the winner, i32::MIN for the other player, 0 for a draw.
C8_TerminalFitness ==
    (last.kind = "execute" /\ outcome(game) # NoOutcome)
        => last.fitness = IF outcome(game).kind = "draw" THEN 0
                          ELSE IF outcome(game).winner = last.player
                               THEN 2147483647 ELSE -2147483647 - 1

\* C8 happens: black has won and execute was asked for white's fitness.
C8_Witness ==
    /\ last.kind = "execute"
    /\ outcome(game) = Decisive("black")
    /\ last.player = "white"
    /\ last.fitness < 0

\* C9: when execute reaches a position without outcome, the fitness is the
\* material count of the player, and white's count is the negation of
\* black's.
C9_Antisymmetric ==
    (last.kind = "execute" /\ outcome(game) = NoOutcome)
        => /\ last.fitness = Fitness(game, last.player)
           /\ Fitness(game, "white") = -Fitness(game, "black")

\* C9 happens with unequal material: a capture or promotion was executed.
C9_Witness ==
    /\ last.kind = "execute"
    /\ outcome(game) = NoOutcome
    /\ last.fitness > 0
    /\ last.action.promotion # None

\* C10: the position a completed position command leaves is the one the
\* command alone determines: its base (the board description, else the
\* initial arrangement) with the moves applied in order, whatever position
\* was held before.
C10_PositionFromCommandAlone ==
    [][(last'.kind = "position" /\ status' = "running")
       => LET base == PositionBase(ChessDefault, last'.startpos, last'.fen)
          IN  /\ base.ok
              /\ PlayMoves(base.val, last'.moves, 1).ok
              /\ game' = PlayMoves(base.val, last'.moves, 1).game]_vars

\* The same for the commands that name their base, "startpos" or a board
\* description (supports C10: the bare form is the only divergence).
PositionFromNamedBase ==
    [][(/\ last'.kind = "position"
        /\ status' = "running"
        /\ last'.startpos \/ last'.fen.some)
       => LET base == PositionBase(ChessDefault, last'.startpos, last'.fen)
          IN  /\ base.ok
              /\ PlayMoves(base.val, last'.moves, 1).ok
              /\ game' = PlayMoves(base.val, last'.moves, 1).game]_vars

\* C11 as stated: the handshake is answered with the identity reply and then
\* with the acknowledgment a readiness check is answered with.
C11_HandshakeEndsWithReadyOk ==
    last.kind = "uci" => out = <<IdReply, ReadyOkReply>>

\* C11: a handshake request is answered with exactly two replies, the
\* identity reply (name and author) and then the handshake-complete
\* acknowledgment uciok, which is not the readiness acknowledgment; a
\* readiness check is answered with exactly one readiness acknowledgment.
C11_HandshakeReplies ==
    /\ last.kind = "uci"
       => /\ Len(out) = 2
          /\ out[1] = [kind |-> "id", name |-> "rubot",
                       author |-> "lncr/Bastian Kauschke"]
          /\ out[2] = UciOkReply
          /\ out[2] # ReadyOkReply
    /\ last.kind = "isready" => out = <<ReadyOkReply>>

C11_Witness == last.kind = "uci" /\ Len(out) = 2 /\ status = "running"

\* C12: a search request with a fixed move time searches with exactly that
\* time, whatever the position and whichever side the bot is bound to.
C12_FixedBudget ==
    (/\ last.kind = "go"
     /\ last.time_control.some
     /\ last.time_control.val.mode = "movetime")
    => move_time = last.time_control.val.time

\* A fixed move time at the top of u64, with black to move and the bot
\* bound to black.
C12_Witness ==
    /\ last.kind = "go"
    /\ last.time_control = Some(MoveTime(U64Max))
    /\ move_time = U64Max
    /\ bot = "black"
    /\ game.turn = "black"
    /\ status = "running"

\* A search request with no time control, or in a mode the arm only logs.
DefaultModeRequest ==
    /\ last.kind = "go"
    /\ \/ ~last.time_control.some
       \/ last.time_control.val.mode \in {"ponder", "infinite"}

\* C13: a search request with no time control, or in ponder or infinite
\* mode, searches with 5000 ms and is answered with one bestmove reply by a
\* process that keeps running; in ponder and infinite mode a log entry is
\* written as well.
C13_DefaultBudgetAndReply ==
    DefaultModeRequest
    => /\ move_time = U64(DefaultMoveTime)
       /\ status = "running"
       /\ Len(out) = 1
       /\ out[1].kind = "bestmove"
       /\ last.time_control.some => logged >= 1

\* What does hold of such a request: the budget, the log entry, and a
\* bestmove reply exactly when the bot has an action to return.
DefaultBudgetWhenBotMoves ==
    DefaultModeRequest
    => /\ move_time = U64(DefaultMoveTime)
       /\ last.time_control.some => logged >= 1
       /\ status = "running" <=> select(bot, game) # {NoneOpt}
       /\ status = "running"
          => /\ Len(out) = 1
             /\ out[1].kind = "bestmove"
             /\ out[1].move \in LegalTexts(game)
       /\ status # "running" => out = <<>>

\* A request without the fields the arm only logs: moves-to-go of the clock,
\* and search moves, mate and node limit of the search constraints.
CoreTime(time_control) ==
    IF time_control.some /\ time_control.val.mode = "timeleft"
    THEN Some([time_control.val EXCEPT !.moves_to_go = NoneOpt])
    ELSE time_control

CoreSearch(search_control) ==
    IF search_control.some
    THEN Some([search_control.val EXCEPT
                   !.search_moves = <<>>, !.mate = NoneOpt, !.nodes = NoneOpt])
    ELSE search_control

\* The requests that differ from the one just handled in those fields only.
Twins ==
    {r \in ModeControls \X FieldControls :
        /\ CoreTime(r[1]) = CoreTime(last'.time_control)
        /\ CoreSearch(r[2]) = CoreSearch(last'.search_control)}

\* C14: a search request, and every request that differs from it only in
\* moves-to-go, search moves, mate or node limit handled in the same session
\* state, search the same position for the same side with the same time,
\* and none of them aborts the process.
C14_FieldsOnlyLogged ==
    [][last'.kind = "go"
       => /\ UNCHANGED <<game, bot>>
          /\ status' = "running"
          /\ \A r \in Twins, chosen \in select(bot, game), checks \in BOOLEAN :
                LET twin == GoArm(game, bot, r[1], r[2], chosen, checks)
                IN  /\ twin.move_time = move_time'
                    /\ twin.status = "running"]_vars

\* What does hold of such requests: the same position, side and time, and
\* an abort exactly when the bot has no action to return, whatever the
\* request is.
FieldsOnlyLoggedWhenBotMoves ==
    [][last'.kind = "go"
       => /\ UNCHANGED <<game, bot>>
          /\ status' = "running" <=> select(bot, game) # {NoneOpt}
          /\ out' # <<>> <=> status' = "running"
          /\ \A r \in Twins :
                LET budget == TimeBudget(game, r[1])
                IN  budget.val = move_time' /\ ~budget.overflow]_vars

\* C15: a message of any other kind writes one log entry and nothing else:
\* no reply is printed, the position and the bot's side stay as they were,
\* and the process keeps running.
C15_OtherMessageOnlyLogged ==
    [][last'.kind \in OtherMessages
       => /\ out' = <<>>
          /\ logged' = 1
          /\ status' = "running"
          /\ UNCHANGED <<game, bot>>]_vars

\* Such a message handled after a position command that left a position
\* other than the initial one.
C15_Witness ==
    /\ last.kind \in OtherMessages
    /\ logged = 1
    /\ out = <<>>
    /\ game # ChessDefault
    /\ bot = "white"

\* C16: the quit signal ends the process with exit code 0, nothing is handled
\* after it, and the process ends in no other way.
C16_QuitIsTheOnlyEnd ==
    [][/\ last'.kind = "quit" => status' = "exited"
       /\ status # "exited"
       /\ status' \in {"running", "exited"}]_vars

\* What does hold of the quit signal: it ends the process with exit code 0
\* without a reply, and a process that has ended, either way, handles
\* nothing more.
QuitExitsAndStops ==
    [][/\ last'.kind = "quit" => status' = "exited" /\ out' = <<>>
       /\ status = "running"]_vars

\* The kinds of reply each kind of message is answered with.
ReplyKinds(kind) ==
    CASE kind = "uci"     -> <<"id", "uciok">>
      [] kind = "isready" -> <<"readyok">>
      [] kind = "go"      -> <<"bestmove">>
      [] OTHER            -> <<>>

\* C18: a message is handled only while the process runs, one at a time and
\* to its end: what a handler prints are the replies of its own message, in
\* their order, and a search request for which the bot has an action prints
\* exactly one bestmove, naming a legal move of the position, before the
\* handler returns and with the position and the bot's side as they were.
C18_OneMessageAtATime ==
    [][/\ status = "running"
       /\ status' = "running" => [i \in 1 .. Len(out') |-> out'[i].kind] = ReplyKinds(last'.kind)
       /\ status' # "running" => out' = <<>>
       /\ (last'.kind = "go" /\ select(bot, game) # {NoneOpt})
          => /\ status' = "running"
             /\ Len(out') = 1
             /\ out'[1].kind = "bestmove"
             /\ out'[1].move \in LegalTexts(game)
             /\ UNCHANGED <<game, bot>>]_vars

\* A search request answered for black after a position command.
C18_Witness ==
    /\ last.kind = "go"
    /\ status = "running"
    /\ Len(out) = 1
    /\ out[1].kind = "bestmove"
    /\ bot = "black"
    /\ game.turn = "black"

\* C19: the position changes only in the new-game and position arms and the
\* bot's side only in the position arm: a search request, a handshake and a
\* readiness check leave both as they were, and a new-game signal leaves
\* the bot's side as it was.
C19_OnlyPositionCommandsChange ==
    [][/\ game' # game => last'.kind \in {"ucinewgame", "position"}
       /\ bot' # bot => last'.kind = "position"
       /\ last'.kind \in {"go", "uci", "isready"} => UNCHANGED <<game, bot>>
       /\ last'.kind = "ucinewgame" => bot' = bot]_vars

\* A new-game signal after a position command: the initial position is
\* back and the bot is still bound to white.
C19_Witness ==
    /\ last.kind = "ucinewgame"
    /\ bot = "white"
    /\ game = ChessDefault
    /\ status = "running"

\* The number of pieces of colour c and role r on the board b.
Count(b, c, r) == Cardinality({s \in Squares : b[s] = Piece(c, r)})

\* The sum the claims name: each piece on b at the value of its role, added
\* for the colour `seat` and subtracted for the other colour.
ClaimedFitness(b, seat) ==
    LET net(r) == Count(b, seat, r) - Count(b, Other(seat), r)
    IN  10 * net("pawn") + 30 * net("knight") + 30 * net("bishop")
        + 50 * net("rook") + 90 * net("queen") + 900 * net("king")

\* C17: execute plays the action on the position and scores the position it
\* reaches: when that position has no outcome, the fitness is the sum over
\* the pieces on its board of 10, 30, 30, 50, 90 and 900 for pawn, knight,
\* bishop, rook, queen and king, added for the player's colour and
\* subtracted for the other, so without a piece just taken and with a
\* promoted pawn at its new role.
C17_ScoresPositionReached ==
    [][last'.kind = "execute"
       => /\ game' = play_unchecked(game, last'.action)
          /\ outcome(game') = NoOutcome
             => last'.fitness = ClaimedFitness(game'.board, last'.player)]_vars

\* White has taken the black rook and the game goes on: white counts its
\* rook and the two kings, and no black rook.
C17_Witness ==
    /\ last.kind = "execute"
    /\ last.action.capture = "rook"
    /\ last.player = "white"
    /\ outcome(game) = NoOutcome
    /\ last.fitness = 50

\* C20: execute returns i32::MAX or i32::MIN exactly when the position it
\* reaches is decided for one side; when the position has no outcome the
\* material count does not overflow i32, equals the exact sum, and lies
\* strictly between i32::MIN and i32::MAX; and 64 pieces of any role
\* together stay below i32::MAX.
C20_SentinelIffDecisive ==
    last.kind = "execute"
    => /\ status = "running"
       /\ last.fitness \in {I32Max, I32Min} <=> outcome(game).kind = "decisive"
       /\ outcome(game) = NoOutcome
          => /\ ~Overflows(game, last.player)
             /\ last.fitness = ClaimedFitness(game.board, last.player)
             /\ I32Min < last.fitness
             /\ last.fitness < I32Max
       /\ \A r \in Role : Value(r) < I32Max \div 64

\* The rook is lost and the game goes on: a negative count for black.
C20_Witness ==
    /\ last.kind = "execute"
    /\ outcome(game) = NoOutcome
    /\ last.player = "black"
    /\ last.fitness = -50
    /\ status = "running"

====
